---------------------------- MODULE Spec2Model ----------------------------
(***************************************************************************)
(* A model of src/app.js, the CryptoNewsApp controller: three source       *)
(* adapters joined by Promise.allSettled, the merge / sort / deduplicate   *)
(* pipeline of fetchNews, the single-flight guard isLoading, and the       *)
(* filter stage filterNews with its renderer renderNews.                   *)
(*                                                                         *)
(* JavaScript strings are sequences of one-character strings, so that      *)
(* toLowerCase, substring, trim, split, join and includes are computed     *)
(* character by character.  A publishedAt string is modelled by a number:  *)
(* a date YYYYMMDD for a string that Date can parse, and NaN for a string  *)
(* that Date cannot parse (its time value is NaN).                         *)
(***************************************************************************)
EXTENDS Integers, Sequences, FiniteSets

VARIABLES
    allNews,        \* this.allNews
    currentFilter,  \* this.currentFilter
    isLoading,      \* this.isLoading
    searchValue,    \* this.searchInput.value
    view,           \* what this.newsContainer.innerHTML shows
    cards,          \* the articles of the card list in newsContainer
    articleCount,   \* this.articleCountEl.textContent, <<>> before the first render
    lastUpdate,     \* this.lastUpdateEl.textContent, <<>> before the first update
    inflight,       \* the fetch cycles suspended at the await of line 54
    merged,         \* this.allNews as the loop of lines 57-62 last left it
    lastOp          \* how the last call of fetchNews went

vars == <<allNews, currentFilter, isLoading, searchValue, view, cards,
          articleCount, lastUpdate, inflight, merged, lastOp>>

---------------------------------------------------------------------------
(* Bounds of the model.                                                    *)

\* The longest article list the specification of the pure functions draws.
MaxLen == 3

---------------------------------------------------------------------------
(* JavaScript values and string operations.                                *)

\* The value undefined where a string is expected (a missing JSON field).
Undefined == <<"undefined-value">>

\* The time value of a Date that could not be parsed.
NaN == -1

Min(a, b) == IF a <= b THEN a ELSE b

Capitals ==
    <<"A","B","C","D","E","F","G","H","I","J","K","L","M","N","O","P","Q","R","S","T","U","V",
      "W","X","Y","Z">>

Smalls ==
    <<"a","b","c","d","e","f","g","h","i","j","k","l","m","n","o","p","q","r","s","t","u","v",
      "w","x","y","z">>

\* The characters that have no other case.
Caseless ==
    <<" ","0","1","2","3","4","5","6","7","8","9","$","(",")",":",".","!","#","/","|","-">>

Range(s) == {s[i] : i \in DOMAIN s}

Chars == Range(Capitals) \cup Range(Smalls) \cup Range(Caseless)

LowerChar ==
    [c \in Chars |->
        IF c \in Range(Capitals)
        THEN Smalls[CHOOSE i \in DOMAIN Capitals : Capitals[i] = c]
        ELSE c]

UpperChar ==
    [c \in Chars |->
        IF c \in Range(Smalls)
        THEN Capitals[CHOOSE i \in DOMAIN Smalls : Smalls[i] = c]
        ELSE c]

toLowerCase(s) == [i \in 1..Len(s) |-> LowerChar[s[i]]]

toUpperCase(s) == [i \in 1..Len(s) |-> UpperChar[s[i]]]

\* s.substring(from, to), both zero-based, to clamped to the length.
substring(s, from, to) == SubSeq(s, from + 1, Min(to, Len(s)))

\* text.includes(term)
includes(text, term) ==
    \E i \in 0..(Len(text) - Len(term)) :
        SubSeq(text, i + 1, i + Len(term)) = term

IsSpace(c) == c = " "

\* s.trim()
trim(s) ==
    LET inner == {i \in 1..Len(s) : ~IsSpace(s[i])}
    IN  IF inner = {} THEN <<>>
        ELSE SubSeq(s, CHOOSE i \in inner : \A j \in inner : i <= j,
                       CHOOSE i \in inner : \A j \in inner : j <= i)

RECURSIVE split(_, _)
\* s.split(sep) for a one-character separator
split(s, sep) ==
    LET at == {i \in 1..Len(s) : s[i] = sep}
    IN  IF at = {} THEN <<s>>
        ELSE LET i == CHOOSE k \in at : \A j \in at : k <= j
             IN  <<SubSeq(s, 1, i - 1)>> \o split(SubSeq(s, i + 1, Len(s)), sep)

RECURSIVE join(_, _)
\* list.join(sep)
join(list, sep) ==
    IF list = <<>> THEN <<>>
    ELSE IF Len(list) = 1 THEN list[1]
    ELSE list[1] \o sep \o join(Tail(list), sep)

\* A value that JavaScript treats as true in a condition or before ||.
Truthy(s) == s # Undefined /\ s # <<>>

\* a || b
OrElse(a, b) == IF Truthy(a) THEN a ELSE b

\* The string a value becomes in a concatenation or a template literal.
ToStr(s) == IF s = Undefined THEN <<"u","n","d","e","f","i","n","e","d">> ELSE s

\* new Date(publishedAt) is a valid date.
ValidDate(p) == p # NaN

---------------------------------------------------------------------------
(* The source adapters: each maps the response of its endpoint to a        *)
(* promise result, [value |-> the article list, failed |-> whether the     *)
(* catch clause ran].                                                      *)

Returned(list) == [status |-> "fulfilled", value |-> list, failed |-> FALSE]

Caught == [status |-> "fulfilled", value |-> <<>>, failed |-> TRUE]

Pending == [status |-> "pending", value |-> <<>>, failed |-> FALSE]

\* The length description is cut to by fetchCryptoCompareNews.
BodyLen == 200

CryptoCompareArticle(article) ==
    [title       |-> article.title,
     description |-> IF Truthy(article.body)
                     THEN substring(article.body, 0, BodyLen) \o <<".",".",".">>
                     ELSE <<>>,
     source      |-> OrElse(article.source_info_name,
                            OrElse(article.source, <<"C","r","y","p","t","o","C","o","m","p","a","r","e">>)),
     publishedAt |-> article.published_on,
     categories  |-> IF Truthy(article.categories)
                     THEN split(article.categories, "|")
                     ELSE <<>>]

\* toISOString throws a RangeError on an invalid date.
CryptoCompareThrows(article) == article.published_on = NaN

fetchCryptoCompareNews(response) ==
    IF response.kind # "json" THEN Caught
    ELSE IF ~response.hasData THEN Returned(<<>>)
    ELSE IF \E i \in DOMAIN response.data : CryptoCompareThrows(response.data[i])
         THEN Caught
    ELSE Returned([i \in DOMAIN response.data |->
                      CryptoCompareArticle(response.data[i])])

\* The number of trending coins fetchCoinGeckoNews keeps.
TrendingLen == 5

CoinGeckoArticle(item, now) ==
    [title       |-> ToStr(item.name) \o <<" ","(">> \o toUpperCase(item.symbol)
                     \o <<")"," ","i","s"," ","T","r","e","n","d","i","n","g","!">>,
     description |-> ToStr(item.name)
                     \o <<" ","i","s"," ","c","u","r","r","e","n","t","l","y"," ","t","r","e","n","d","i","n","g",
      " ","o","n"," ","C","o","i","n","G","e","c","k","o","."," ","M","a","r","k","e","t"," ",
      "C","a","p"," ","R","a","n","k",":"," ","#">>
                     \o OrElse(item.market_cap_rank, <<"N","/","A">>),
     source      |-> <<"C","o","i","n","G","e","c","k","o"," ","T","r","e","n","d","i","n","g">>,
     publishedAt |-> now,
     categories  |-> << <<"t","r","e","n","d","i","n","g">>, <<"m","a","r","k","e","t">> >>]

\* undefined.toUpperCase() throws a TypeError.
CoinGeckoThrows(item) == item.symbol = Undefined

fetchCoinGeckoNews(response, now) ==
    IF response.kind # "json" THEN Caught
    ELSE IF ~response.hasData THEN Returned(<<>>)
    ELSE LET coins == SubSeq(response.data, 1, Min(TrendingLen, Len(response.data)))
         IN  IF \E i \in DOMAIN coins : CoinGeckoThrows(coins[i])
             THEN Caught
             ELSE Returned([i \in DOMAIN coins |-> CoinGeckoArticle(coins[i], now)])

\* The lengths the description is cut to in the title of a status update.
NamedTitleLen == 60

PlainTitleLen == 80

\* description?.substring(0, n)
OptSubstring(s, n) == IF s = Undefined THEN Undefined ELSE substring(s, 0, n)

AlternativeArticle(update, now) ==
    [title       |-> IF Truthy(update.project_name)
                     THEN update.project_name \o <<":"," ">>
                          \o OrElse(OptSubstring(update.description, NamedTitleLen),
                                    <<"U","p","d","a","t","e">>)
                          \o <<".",".",".">>
                     ELSE OrElse(OptSubstring(update.description, PlainTitleLen),
                                 <<"C","r","y","p","t","o"," ","U","p","d","a","t","e">>),
     description |-> OrElse(update.description, <<>>),
     source      |-> OrElse(update.project_name, <<"C","r","y","p","t","o"," ","P","r","o","j","e","c","t">>),
     publishedAt |-> IF update.has_created_at THEN update.created_at ELSE now,
     categories  |-> << OrElse(update.category, <<"u","p","d","a","t","e">>) >>]

fetchAlternativeNews(response, now) ==
    IF response.kind # "json" THEN Caught
    ELSE IF ~response.hasData THEN Returned(<<>>)
    ELSE Returned([i \in DOMAIN response.data |->
                      AlternativeArticle(response.data[i], now)])

---------------------------------------------------------------------------
(* The pipeline of fetchNews: combine, sort, remove duplicates.            *)

RECURSIVE Accumulate(_, _, _)
\* results.forEach of lines 58-62, from result i on, this.allNews being acc.
Accumulate(acc, results, i) ==
    IF i > Len(results) THEN acc
    ELSE Accumulate(IF results[i].status = "fulfilled"
                    THEN acc \o results[i].value
                    ELSE acc,
                    results, i + 1)

\* The loop of lines 58-62 without the reset of line 57.
CombineKeepingPrevious(previous, results) == Accumulate(previous, results, 1)

\* Lines 57-62: this.allNews is reset, then every fulfilled value is appended.
CombineResults(previous, results) == Accumulate(<<>>, results, 1)

RECURSIVE SortDesc(_)
\* A stable sort by publishedAt, newest first (every date valid).
SortDesc(list) ==
    IF Len(list) <= 1 THEN list
    ELSE LET front == SortDesc(SubSeq(list, 1, Len(list) - 1))
             x     == list[Len(list)]
             k     == Cardinality({i \in DOMAIN front :
                                      front[i].publishedAt >= x.publishedAt})
         IN  SubSeq(front, 1, k) \o <<x>> \o SubSeq(front, k + 1, Len(front))

Orderings(list) ==
    LET n == Len(list)
    IN  { [i \in 1..n |-> list[f[i]]] :
            f \in {g \in [1..n -> 1..n] : \A i, j \in 1..n : g[i] = g[j] => i = j} }

\* The comparator of line 65 returns NaN as soon as one of the two dates is
\* invalid; it is then no consistent comparison function and the order
\* Array.prototype.sort leaves is implementation-defined.
ComparatorConsistent(list) ==
    Len(list) <= 1 \/ \A i \in DOMAIN list : ValidDate(list[i].publishedAt)

\* The lists this.allNews.sort(...) of line 65 can leave.
SortOutcomes(list) ==
    IF ComparatorConsistent(list) THEN {SortDesc(list)} ELSE Orderings(list)

\* The number of title characters that make the key of removeDuplicates.
KeyLen == 50

\* The key cut five characters short.
DedupKeyShort(article) == substring(toLowerCase(article.title), 0, KeyLen - 5)

\* article.title.toLowerCase().substring(0, 50)
DedupKey(article) == substring(toLowerCase(article.title), 0, KeyLen)

\* undefined.toLowerCase() throws a TypeError.
DedupThrows(news) == \E i \in DOMAIN news : news[i].title = Undefined

RECURSIVE DedupFrom(_, _, _)
DedupFrom(news, i, seen) ==
    IF i > Len(news) THEN <<>>
    ELSE LET key == DedupKey(news[i])
         IN  IF key \in seen
             THEN DedupFrom(news, i + 1, seen)
             ELSE <<news[i]>> \o DedupFrom(news, i + 1, seen \cup {key})

RECURSIVE KeepLastFrom(_, _)
KeepLastFrom(news, i) ==
    IF i > Len(news) THEN <<>>
    ELSE IF \E j \in (i + 1)..Len(news) : DedupKey(news[j]) = DedupKey(news[i])
         THEN KeepLastFrom(news, i + 1)
         ELSE <<news[i]>> \o KeepLastFrom(news, i + 1)

\* removeDuplicates keeping the last article of each key, not the first.
removeDuplicatesKeepLast(news) == KeepLastFrom(news, 1)

\* removeDuplicates giving up after the first duplicate it has removed.
removeFirstDuplicate(news) ==
    LET dup == {i \in DOMAIN news :
                  \E j \in 1..(i - 1) : DedupKey(news[j]) = DedupKey(news[i])}
    IN  IF dup = {} THEN news
        ELSE LET i == CHOOSE k \in dup : \A j \in dup : k <= j
             IN  SubSeq(news, 1, i - 1) \o SubSeq(news, i + 1, Len(news))

removeDuplicates(news) == DedupFrom(news, 1, {})

---------------------------------------------------------------------------
(* The filter stage and the renderer.                                      *)

\* The text the category filter searches, line 180.
CategoryText(article) ==
    toLowerCase(ToStr(article.title) \o <<" ">> \o article.description
                \o <<" ">> \o join(article.categories, <<" ">>))

\* The text the search filter searches, line 189.
SearchText(article) ==
    toLowerCase(ToStr(article.title) \o <<" ">> \o article.description
                \o <<" ">> \o article.source)

\* The search term without the trim() of line 186.
SearchTermUntrimmed(value) == toLowerCase(value)

\* this.searchInput.value.toLowerCase().trim(), line 186.
SearchTerm(value) == trim(toLowerCase(value))

FilterAll == <<"a","l","l">>

\* applyFilters with the category filter applied for every tag, "all" too.
applyFiltersNoSentinel(news, filter, value) ==
    LET tag == toLowerCase(filter)
        InCategory(a) == includes(CategoryText(a), tag)
        byCategory == SelectSeq(news, InCategory)
        searchTerm == SearchTerm(value)
        Found(a) == includes(SearchText(a), searchTerm)
    IN  IF searchTerm # <<>> THEN SelectSeq(byCategory, Found) ELSE byCategory

\* Lines 175-192: the list filterNews hands to renderNews.
applyFilters(news, filter, value) ==
    LET byCategory ==
            IF filter # FilterAll
            THEN LET tag == toLowerCase(filter)
                     Test(a) == includes(CategoryText(a), tag)
                 IN  SelectSeq(news, Test)
            ELSE news
        searchTerm == SearchTerm(value)
    IN  IF searchTerm # <<>>
        THEN LET Test(a) == includes(SearchText(a), searchTerm)
             IN  SelectSeq(byCategory, Test)
        ELSE byCategory

\* renderNews without the test of line 200.
renderNewsAlwaysCards(news) ==
    /\ articleCount' = <<Len(news)>>
    /\ view' = "cards"
    /\ cards' = news

\* renderNews, lines 197-211.
renderNews(news) ==
    /\ articleCount' = <<Len(news)>>
    /\ IF Len(news) = 0
       THEN view' = "noresults" /\ cards' = <<>>
       ELSE view' = "cards" /\ cards' = news

\* filterNews, lines 174-195, on the state the handler has reached.
filterNews(news, filter, value) == renderNews(applyFilters(news, filter, value))

---------------------------------------------------------------------------
(* The responses the three endpoints are given in the model.               *)

TitleBtcEtf ==
    <<"B","i","t","c","o","i","n"," ","S","u","r","g","e","s"," ","P","a","s","t"," ","$","5",
      "0","0","0","0"," ","A","s"," ","M","a","r","k","e","t"," ","R","a","l","l","i","e","s",
      " ","O","n"," ","E","T","F"," ","N","e","w","s"," ","T","o","d","a","y">>

TitleBtcHard ==
    <<"B","i","t","c","o","i","n"," ","S","u","r","g","e","s"," ","P","a","s","t"," ","$","5",
      "0","0","0","0"," ","A","s"," ","M","a","r","k","e","t"," ","R","a","l","l","i","e","s",
      " ","H","a","r","d">>

TitleBtcEtfCaps ==
    <<"B","I","T","C","O","I","N"," ","S","U","R","G","E","S"," ","P","A","S","T"," ","$","5",
      "0","0","0","0"," ","A","S"," ","M","A","R","K","E","T"," ","R","A","L","L","I","E","S",
      " ","O","N"," ","E","T","F","s"," ","I","n","f","l","o","w","s">>

TitleBtcEu ==
    <<"B","i","t","c","o","i","n"," ","S","u","r","g","e","s"," ","P","a","s","t"," ","$","5",
      "0","0","0","0"," ","A","s"," ","M","a","r","k","e","t"," ","R","a","l","l","i","e","s",
      " ","O","n"," ","E","U"," ","R","u","l","e","s">>

NetworkError == [kind |-> "error", hasData |-> FALSE, data |-> <<>>]

NoData == [kind |-> "json", hasData |-> FALSE, data |-> <<>>]

Data(records) == [kind |-> "json", hasData |-> TRUE, data |-> records]

RawBtcEtf ==
    [title |-> TitleBtcEtf, body |-> <<"E","T","F"," ","i","n","f","l","o","w","s">>,
     source_info_name |-> <<"C","o","i","n","D","e","s","k">>, source |-> <<"c","o","i","n","d","e","s","k">>,
     published_on |-> 20240102, categories |-> <<"B","T","C","|","M","a","r","k","e","t">>]

RawUntitled ==
    [title |-> Undefined, body |-> Undefined,
     source_info_name |-> Undefined, source |-> Undefined,
     published_on |-> 20240101, categories |-> Undefined]

RawUndated ==
    [title |-> TitleBtcEu, body |-> Undefined,
     source_info_name |-> Undefined, source |-> Undefined,
     published_on |-> NaN, categories |-> Undefined]

CryptoCompareResponses ==
    {NetworkError, Data(<<RawBtcEtf>>), Data(<<RawUntitled>>), Data(<<RawUndated>>)}

RawCoinEth ==
    [name |-> <<"E","t","h","e","r","e","u","m">>, symbol |-> <<"e","t","h">>, market_cap_rank |-> <<"2">>]

\* The trending endpoint is down, or lists no coin.
CoinGeckoResponses == {NetworkError, Data(<<>>)}

RawUpdateBtcHard ==
    [project_name |-> Undefined, description |-> TitleBtcHard,
     has_created_at |-> TRUE, created_at |-> 20240101, category |-> Undefined]

RawUpdateBadDate ==
    [project_name |-> <<"S","o","l","a","n","a">>, description |-> <<"M","a","i","n","n","e","t"," ","u","p","g","r","a","d","e">>,
     has_created_at |-> TRUE, created_at |-> NaN, category |-> <<"s","o","f","t","w","a","r","e">>]

RawUpdateEth ==
    [project_name |-> <<"E","t","h","e","r","e","u","m">>, description |-> <<"E","T","F"," ","N","e","w","s">>,
     has_created_at |-> TRUE, created_at |-> 20240103, category |-> <<"g","e","n","e","r","a","l">>]

AlternativeResponses ==
    {NetworkError, Data(<<RawUpdateBtcHard>>), Data(<<RawUpdateBadDate, RawUpdateEth>>)}

\* The values of data-filter on the filter buttons.
FilterPool == {FilterAll, <<"B","T","C">>}

\* The texts typed in the search input.
SearchPool == {<<>>, <<"E","T","F"," ">>}

---------------------------------------------------------------------------
(* The controller.                                                         *)

\* new Date(), as a date: the day the page is open.
Now == 20240104

\* The three adapter promises of lines 48-52, just started.
NewCycle == <<Pending, Pending, Pending>>

RemoveAt(seq, c) == SubSeq(seq, 1, c - 1) \o SubSeq(seq, c + 1, Len(seq))

\* The state the constructor leaves: lines 12-14, then init, whose call of
\* fetchNews runs to the await of line 54.
Init ==
    /\ allNews = <<>>
    /\ currentFilter = FilterAll
    /\ isLoading = TRUE
    /\ searchValue = <<>>
    /\ view = "loading"
    /\ cards = <<>>
    /\ articleCount = <<>>
    /\ lastUpdate = <<>>
    /\ inflight = <<NewCycle>>
    /\ merged = <<>>
    /\ lastOp = "started"

\* fetchNews without the guard of line 41.
fetchNewsUnguarded ==
    /\ isLoading' = TRUE
    /\ view' = "loading"
    /\ cards' = <<>>
    /\ inflight' = Append(inflight, NewCycle)
    /\ lastOp' = "started"
    /\ UNCHANGED <<allNews, currentFilter, searchValue, articleCount,
                   lastUpdate, merged>>

\* fetchNews with showLoading called before the guard of line 41.
fetchNewsLoadingFirst ==
    IF isLoading
    THEN /\ view' = "loading"
         /\ cards' = <<>>
         /\ lastOp' = "dropped"
         /\ UNCHANGED <<allNews, currentFilter, isLoading, searchValue,
                        articleCount, lastUpdate, inflight, merged>>
    ELSE /\ isLoading' = TRUE
         /\ view' = "loading"
         /\ cards' = <<>>
         /\ inflight' = Append(inflight, NewCycle)
         /\ lastOp' = "started"
         /\ UNCHANGED <<allNews, currentFilter, searchValue, articleCount,
                        lastUpdate, merged>>

\* fetchNews, lines 40-54: the guard, then showLoading and the three adapter
\* calls, up to the await.
fetchNews ==
    IF isLoading
    THEN /\ lastOp' = "dropped"
         /\ UNCHANGED <<allNews, currentFilter, isLoading, searchValue, view, cards,
                        articleCount, lastUpdate, inflight, merged>>
    ELSE /\ isLoading' = TRUE
         /\ view' = "loading"
         /\ cards' = <<>>
         /\ inflight' = Append(inflight, NewCycle)
         /\ lastOp' = "started"
         /\ UNCHANGED <<allNews, currentFilter, searchValue, articleCount,
                        lastUpdate, merged>>

\* The click listener of the refresh button, line 21.
RefreshClick == fetchNews

\* The interval timer of line 37.
TimerTick == fetchNews

\* The input listener of the search box, line 22.
SearchInput(value) ==
    /\ value # searchValue
    /\ searchValue' = value
    /\ filterNews(allNews, currentFilter, value)
    /\ UNCHANGED <<allNews, currentFilter, isLoading, lastUpdate, inflight,
                   merged, lastOp>>

\* The click listener with lines 28 and 29 exchanged: the filter stage runs
\* with the tag of before the click.
FilterClickStale(tag) ==
    /\ currentFilter' = tag
    /\ filterNews(allNews, currentFilter, searchValue)
    /\ UNCHANGED <<allNews, searchValue, isLoading, lastUpdate, inflight,
                   merged, lastOp>>

\* The click listener of a filter button, lines 25-30.
FilterClick(tag) ==
    /\ currentFilter' = tag
    /\ filterNews(allNews, tag, searchValue)
    /\ UNCHANGED <<allNews, searchValue, isLoading, lastUpdate, inflight,
                   merged, lastOp>>

Settle(c, i, result) ==
    /\ c \in DOMAIN inflight
    /\ inflight[c][i].status = "pending"
    /\ inflight' = [inflight EXCEPT ![c][i] = result]
    /\ UNCHANGED <<allNews, currentFilter, isLoading, searchValue, view, cards,
                   articleCount, lastUpdate, merged, lastOp>>

\* The promise of fetchCryptoCompareNews settles.
SettleCryptoCompare(c) ==
    \E r \in CryptoCompareResponses : Settle(c, 1, fetchCryptoCompareNews(r))

\* The promise of fetchCoinGeckoNews settles.
SettleCoinGecko(c) ==
    \E r \in CoinGeckoResponses : Settle(c, 2, fetchCoinGeckoNews(r, Now))

\* The promise of fetchAlternativeNews settles.
SettleAlternative(c) ==
    \E r \in AlternativeResponses : Settle(c, 3, fetchAlternativeNews(r, Now))

\* A combinator that resolves as soon as one promise has settled.
anySettled(promises) ==
    \E i \in DOMAIN promises : promises[i].status # "pending"

\* Promise.allSettled(newsPromises), line 54, has resolved.
allSettled(promises) ==
    \A i \in DOMAIN promises : promises[i].status # "pending"

\* fetchNews with the statement of line 78 inside the try block, after
\* line 71: a cycle that aborts leaves isLoading set.
fetchNewsResumeInTry(c) ==
    /\ c \in DOMAIN inflight
    /\ allSettled(inflight[c])
    /\ LET combined == CombineResults(allNews, inflight[c])
       IN  \E sorted \in SortOutcomes(combined) :
             /\ merged' = combined
             /\ IF DedupThrows(sorted)
                THEN /\ allNews' = sorted
                     /\ view' = "error"
                     /\ cards' = <<>>
                     /\ lastOp' = "aborted"
                     /\ isLoading' = isLoading
                     /\ UNCHANGED <<articleCount, lastUpdate>>
                ELSE /\ allNews' = removeDuplicates(sorted)
                     /\ lastUpdate' = <<Now>>
                     /\ filterNews(removeDuplicates(sorted), currentFilter, searchValue)
                     /\ lastOp' = "completed"
                     /\ isLoading' = FALSE
    /\ inflight' = RemoveAt(inflight, c)
    /\ UNCHANGED <<currentFilter, searchValue>>

\* fetchNews with updateLastUpdate called before removeDuplicates, lines 70
\* and 68 exchanged: a cycle that aborts has recorded the time.
fetchNewsResumeStampFirst(c) ==
    /\ c \in DOMAIN inflight
    /\ allSettled(inflight[c])
    /\ LET combined == CombineResults(allNews, inflight[c])
       IN  \E sorted \in SortOutcomes(combined) :
             /\ merged' = combined
             /\ lastUpdate' = <<Now>>
             /\ IF DedupThrows(sorted)
                THEN /\ allNews' = sorted
                     /\ view' = "error"
                     /\ cards' = <<>>
                     /\ lastOp' = "aborted"
                     /\ UNCHANGED articleCount
                ELSE /\ allNews' = removeDuplicates(sorted)
                     /\ filterNews(removeDuplicates(sorted), currentFilter, searchValue)
                     /\ lastOp' = "completed"
    /\ isLoading' = FALSE
    /\ inflight' = RemoveAt(inflight, c)
    /\ UNCHANGED <<currentFilter, searchValue>>

\* fetchNews, lines 54-78: Promise.allSettled has resolved and the cycle runs
\* to its end in one turn of the event loop.
fetchNewsResume(c) ==
    /\ c \in DOMAIN inflight
    /\ allSettled(inflight[c])
    /\ LET combined == CombineResults(allNews, inflight[c])
       IN  \E sorted \in SortOutcomes(combined) :
             /\ merged' = combined
             /\ IF DedupThrows(sorted)
                THEN /\ allNews' = sorted
                     /\ view' = "error"
                     /\ cards' = <<>>
                     /\ lastOp' = "aborted"
                     /\ UNCHANGED <<articleCount, lastUpdate>>
                ELSE /\ allNews' = removeDuplicates(sorted)
                     /\ lastUpdate' = <<Now>>
                     /\ filterNews(removeDuplicates(sorted), currentFilter, searchValue)
                     /\ lastOp' = "completed"
    /\ isLoading' = FALSE
    /\ inflight' = RemoveAt(inflight, c)
    /\ UNCHANGED <<currentFilter, searchValue>>

Next ==
    \/ RefreshClick
    \/ TimerTick
    \/ \E value \in SearchPool : SearchInput(value)
    \/ \E tag \in FilterPool : FilterClick(tag)
    \/ \E c \in DOMAIN inflight : SettleCryptoCompare(c)
    \/ \E c \in DOMAIN inflight : SettleCoinGecko(c)
    \/ \E c \in DOMAIN inflight : SettleAlternative(c)
    \/ \E c \in DOMAIN inflight : fetchNewsResume(c)

Spec == Init /\ [][Next]_vars

\* The scheduling the event loop gives a cycle: the response of each endpoint
\* arrives or fails, and the continuation of the await of line 54 is run once
\* Promise.allSettled has resolved.
Fairness ==
    /\ WF_vars(\E c \in DOMAIN inflight : SettleCryptoCompare(c))
    /\ WF_vars(\E c \in DOMAIN inflight : SettleCoinGecko(c))
    /\ WF_vars(\E c \in DOMAIN inflight : SettleAlternative(c))
    /\ WF_vars(\E c \in DOMAIN inflight : fetchNewsResume(c))

SpecFair == Spec /\ Fairness

---------------------------------------------------------------------------
(* The pure functions on their own: removeDuplicates and the filter stage  *)
(* applied to every article list of at most MaxLen articles of the pool.   *)

ArticleBtcCaps ==
    [title |-> TitleBtcEtfCaps, description |-> <<>>, source |-> <<"C","r","y","p","t","o","C","o","m","p","a","r","e">>,
     publishedAt |-> 20240103, categories |-> << <<"B","T","C">> >>]

ArticleBtcEu ==
    [title |-> TitleBtcEu, description |-> <<>>, source |-> <<"C","r","y","p","t","o","C","o","m","p","a","r","e">>,
     publishedAt |-> 20240101, categories |-> << <<"R","e","g","u","l","a","t","i","o","n">> >>]

ArticlePool ==
    {CryptoCompareArticle(RawBtcEtf), CryptoCompareArticle(RawUntitled),
     CoinGeckoArticle(RawCoinEth, Now), AlternativeArticle(RawUpdateBtcHard, Now),
     ArticleBtcCaps, ArticleBtcEu}

ArticleLists == UNION {[1..n -> ArticlePool] : n \in 0..MaxLen}

InitPure ==
    /\ allNews \in ArticleLists
    /\ merged = allNews
    /\ currentFilter = FilterAll
    /\ isLoading = FALSE
    /\ searchValue = <<>>
    /\ view = "loading"
    /\ cards = <<>>
    /\ articleCount = <<>>
    /\ lastUpdate = <<>>
    /\ inflight = <<>>
    /\ lastOp = "input"

\* this.allNews = this.removeDuplicates(this.allNews), line 68, on the input:
\* when removeDuplicates throws at line 167 the assignment does not happen.
DedupOnce ==
    /\ lastOp = "input"
    /\ articleCount = <<>>
    /\ IF DedupThrows(allNews)
       THEN allNews' = allNews /\ lastOp' = "threw"
       ELSE allNews' = removeDuplicates(allNews) /\ lastOp' = "deduplicated"
    /\ UNCHANGED <<currentFilter, isLoading, searchValue, view, cards,
                   articleCount, lastUpdate, inflight, merged>>

\* removeDuplicates applied to its own output.
DedupAgain ==
    /\ lastOp = "deduplicated"
    /\ allNews' = removeDuplicates(allNews)
    /\ lastOp' = "deduplicated twice"
    /\ UNCHANGED <<currentFilter, isLoading, searchValue, view, cards,
                   articleCount, lastUpdate, inflight, merged>>

NextPure ==
    \/ DedupOnce
    \/ DedupAgain
    \/ \E value \in SearchPool : SearchInput(value)
    \/ \E tag \in FilterPool : FilterClick(tag)

SpecPure == InitPure /\ [][NextPure]_vars

---------------------------------------------------------------------------
(* The claims.                                                             *)

\* C1: single-flight.  In every reachable state at most one fetch cycle is
\* suspended at the await, and exactly one while isLoading is true: a request
\* that arrives while the controller is fetching starts no second cycle and so
\* no further adapter fetch.
C1_SingleFlight ==
    /\ Len(inflight) <= 1
    /\ isLoading <=> Len(inflight) = 1

\* A request was dropped while a cycle was in flight with an adapter settled.
C1_Witness ==
    /\ isLoading
    /\ lastOp = "dropped"
    /\ Len(inflight) = 1
    /\ \E i \in DOMAIN inflight[1] : inflight[1][i].status = "fulfilled"

\* C2: a cycle that aborts with a cycle-level error leaves allNews equal to the
\* value it had before the cycle, and shows the error state.
C2_AbortKeepsArticles ==
    [][(isLoading /\ lastOp' = "aborted")
         => (allNews' = allNews /\ view' = "error" /\ ~isLoading')]_vars

\* The output an adapter contributes to the merge: nothing when it failed.
OutputOf(result) == IF result.failed THEN <<>> ELSE result.value

\* C3: the list a cycle merges is the concatenation, in adapter order, of the
\* outputs of the adapters that succeeded, whatever allNews held before.
C3_MergeIsConcatenation ==
    [][(isLoading /\ ~isLoading')
         => merged' = OutputOf(inflight[1][1]) \o OutputOf(inflight[1][2])
                      \o OutputOf(inflight[1][3])]_vars

\* A cycle has merged the outputs of the first and third adapter, in that
\* order, the second having contributed nothing.
C3_Witness ==
    /\ ~isLoading
    /\ merged = <<CryptoCompareArticle(RawBtcEtf),
                  AlternativeArticle(RawUpdateBtcHard, Now)>>

\* C4: after a cycle that completed, the article list is ordered newest first:
\* of two articles with dates, the earlier in the list is not the older.
C4_SortedNewestFirst ==
    lastOp = "completed"
        => \A i, j \in DOMAIN allNews :
              (i < j /\ ValidDate(allNews[i].publishedAt)
                     /\ ValidDate(allNews[j].publishedAt))
                  => allNews[i].publishedAt >= allNews[j].publishedAt

\* The key of the claims: the title in lower case, cut to 50 characters.
TitleKey(article) ==
    LET low == toLowerCase(article.title)
    IN  [i \in 1..Min(Len(low), 50) |-> low[i]]

\* The positions of list whose key no earlier position has.
FirstOfKey(list) ==
    {i \in DOMAIN list :
        \A j \in 1..(i - 1) : TitleKey(list[j]) # TitleKey(list[i])}

\* The sub-sequence of list at the positions of the set at, in order.
Picked(list, at) ==
    [k \in 1..Cardinality(at) |->
        list[CHOOSE i \in at : Cardinality({j \in at : j <= i}) = k]]

\* C5: removeDuplicates returns the sub-sequence of its input that holds, for
\* each key, the first article of the input with that key and no other.
C5_DedupKeepsFirst ==
    lastOp = "deduplicated" => allNews = Picked(merged, FirstOfKey(merged))

\* removeDuplicates was given two articles with different titles and one key,
\* and returned fewer articles than it was given.
C5_Witness ==
    /\ lastOp = "deduplicated"
    /\ Len(allNews) < Len(merged)
    /\ \E i, j \in DOMAIN merged :
          /\ merged[i].title # merged[j].title
          /\ TitleKey(merged[i]) = TitleKey(merged[j])

\* The example of the specification: one adapter returns the article titled
\* "... Rallies On ETF News Today" of 2024-01-02, another the article titled
\* "... Rallies Hard" of 2024-01-01, the third nothing.
ExampleMerged ==
    <<CryptoCompareArticle(RawBtcEtf), AlternativeArticle(RawUpdateBtcHard, Now)>>

\* C6, as the specification states it: the article list of the example has
\* one entry, the one of 2024-01-02.
C6_ExampleOneEntry ==
    (lastOp = "completed" /\ merged = ExampleMerged)
        => (Len(allNews) = 1 /\ allNews[1].publishedAt = 20240102)

\* C6, amended: the article list of the example has two entries, the article
\* of 2024-01-02 first and the article of 2024-01-01 second; the titles differ
\* at their 46th character, inside the key.
C6_ExampleTwoEntries ==
    (lastOp = "completed" /\ merged = ExampleMerged)
        => /\ Len(allNews) = 2
           /\ allNews[1].title = TitleBtcEtf /\ allNews[1].publishedAt = 20240102
           /\ allNews[2].title = TitleBtcHard /\ allNews[2].publishedAt = 20240101

\* The cycle of the example has completed.
C6_Witness == lastOp = "completed" /\ merged = ExampleMerged

\* C7: removeDuplicates applied to its own output returns it unchanged.
C7_DedupIdempotent ==
    [][(lastOp = "deduplicated" /\ lastOp' = "deduplicated twice")
         => allNews' = allNews]_vars

\* removeDuplicates has been applied twice, and the first time removed an
\* article.
C7_Witness == lastOp = "deduplicated twice" /\ Len(allNews) < Len(merged)

\* The filter stage has run and the view shows what it produced.
Rendered == view \in {"cards", "noresults"}

\* C8: with the filter at "all" and an empty search box, the filter stage
\* hands the renderer the article list as it is.
C8_FilterIdentity ==
    (Rendered /\ currentFilter = FilterAll /\ searchValue = <<>>)
        => (cards = allNews /\ articleCount = <<Len(allNews)>>)

\* The filter stage has run on a list of several articles with the filter at
\* "all" and the search box empty.
C8_Witness ==
    /\ Rendered
    /\ currentFilter = FilterAll
    /\ searchValue = <<>>
    /\ Len(allNews) >= 2

\* The article passes the category filter of tag and the search for term.
Passes(article, tag, term) ==
    /\ tag # FilterAll => includes(CategoryText(article), toLowerCase(tag))
    /\ term # <<>> => includes(SearchText(article), term)

\* The articles of list that pass, in their order.
Passing(list, tag, term) ==
    Picked(list, {i \in DOMAIN list : Passes(list[i], tag, term)})

\* C9, as stated: the filtered list holds the articles that contain the tag
\* and the search term, the term being the text of the search box.
C9_FilterByTypedTerm ==
    Rendered => cards = Passing(allNews, currentFilter, toLowerCase(searchValue))

\* C9, amended: the search term is the text of the search box in lower case
\* with the white space at its two ends removed.
C9_FilterByTrimmedTerm ==
    Rendered
        => cards = Passing(allNews, currentFilter, trim(toLowerCase(searchValue)))

\* Both filters are active, and kept some articles and dropped others.
C9_Witness ==
    /\ Rendered
    /\ currentFilter # FilterAll
    /\ searchValue # <<>>
    /\ cards # <<>>
    /\ Len(cards) < Len(allNews)

\* C10: the view shows a card list only when the list has an article, and
\* shows "no results" exactly when the filter stage last produced no article
\* and neither the loading nor the error state has replaced it.
C10_EmptyResultState ==
    /\ view \in {"loading", "error", "noresults", "cards"}
    /\ view = "cards" => (cards # <<>> /\ articleCount = <<Len(cards)>>)
    /\ view = "noresults" <=>
          (articleCount = <<0>> /\ view \notin {"loading", "error"})

\* The filter stage has filtered a list with articles down to none.
C10_Witness == view = "noresults" /\ allNews # <<>> /\ ~isLoading

\* The adapter results of the cycle a step ends.
Ending == inflight[1]

\* The step ends a fetch cycle.
CycleEnds == isLoading /\ ~isLoading'

\* C11: no adapter rejects: a settled adapter is fulfilled, with the empty
\* list when it failed; and a cycle in which an adapter has failed does not
\* end with the view in the error state.
C11_AdapterFailSoft ==
    [][/\ \A c \in DOMAIN inflight : \A i \in DOMAIN inflight[c] :
             /\ inflight[c][i].status \in {"pending", "fulfilled"}
             /\ inflight[c][i].failed => inflight[c][i].value = <<>>
       /\ (CycleEnds /\ \E i \in DOMAIN Ending : Ending[i].failed)
             => view' # "error"]_vars

\* The article has a title and a date, and its categories are a list.
WellFormed(article) ==
    /\ article.title # Undefined
    /\ article.publishedAt \in Int
    /\ article.categories \in Seq(Seq(Chars))

\* C12: every article an adapter has produced, and every article of the
\* article list, has a title, a publishedAt and a list of categories.
C12_ArticleInvariants ==
    /\ \A c \in DOMAIN inflight : \A i \in DOMAIN inflight[c] :
          \A k \in DOMAIN inflight[c][i].value :
             WellFormed(inflight[c][i].value[k])
    /\ \A k \in DOMAIN allNews : WellFormed(allNews[k])

\* C13: a cycle starts its three adapters together; it merges and ends only
\* when each of the three has settled; and while it waits, an adapter that
\* has settled, failed or not, leaves the cycle and the other adapters as
\* they are.
C13_AllSettledBarrier ==
    [][/\ (CycleEnds \/ merged' # merged \/ allNews' # allNews)
             => \A i \in 1..3 : Ending[i].status = "fulfilled"
       /\ (~isLoading /\ isLoading')
             => inflight' = << <<Pending, Pending, Pending>> >>
       /\ (isLoading /\ isLoading')
             => /\ Len(inflight') = 1
                /\ \A i \in 1..3 :
                      Ending[i].status # "pending" => inflight'[1][i] = Ending[i]]_vars

\* The first adapter has failed, the cycle still waits for the two others,
\* and the article list is as it was.
C13_Witness ==
    /\ isLoading
    /\ inflight[1][1].failed
    /\ inflight[1][2].status = "pending"
    /\ inflight[1][3].status = "pending"
    /\ merged = <<>>

\* C14: when every adapter settles, a cycle that has started returns to idle,
\* whether it completes or aborts; and in every idle state a timer tick
\* starts a new cycle.
C14_ReturnToIdle ==
    /\ isLoading ~> ~isLoading
    /\ [](~isLoading => ENABLED (TimerTick /\ isLoading' /\ inflight' = <<NewCycle>>))

\* A cycle has aborted, leaving an article without a title in the article
\* list, the controller has returned to idle and a new cycle has started.
C14_Witness ==
    /\ isLoading
    /\ lastOp = "started"
    /\ \E k \in DOMAIN allNews : allNews[k].title = Undefined

\* The step drops a cycle request.
Drops == lastOp # "dropped" /\ lastOp' = "dropped"

\* C15: a request that is dropped changes nothing of the controller, so the
\* cycle in flight goes on from the state it was in, and the article list it
\* ends with is determined by what its adapters returned; a request is
\* dropped only while a cycle is in flight, a cycle starts only in the step of
\* a request made when idle, and when a cycle ends none is left in flight.
C15_DroppedRequestNoEffect ==
    [][/\ Drops => /\ isLoading
                   /\ UNCHANGED <<allNews, currentFilter, isLoading, searchValue,
                                  view, cards, articleCount, lastUpdate,
                                  inflight, merged>>
       /\ Len(inflight') > Len(inflight) => (~isLoading /\ lastOp' = "started")
       /\ CycleEnds
             => /\ inflight' = <<>>
                /\ \E sorted \in SortOutcomes(OutputOf(Ending[1]) \o OutputOf(Ending[2])
                                                \o OutputOf(Ending[3])) :
                      allNews' = IF DedupThrows(sorted) THEN sorted
                                 ELSE Picked(sorted, FirstOfKey(sorted))]_vars

\* A request was dropped while the view showed the result of a search typed
\* during the cycle, and the cycle is still in flight.
C15_Witness ==
    /\ lastOp = "dropped"
    /\ isLoading
    /\ view # "loading"
    /\ searchValue # <<>>

\* After the step the view shows what the filter stage makes of the article
\* list, the filter tag and the search input of after the step.
FilterRun ==
    /\ view' \in {"cards", "noresults"}
    /\ cards' = Passing(allNews', currentFilter', trim(toLowerCase(searchValue')))
    /\ articleCount' = <<Len(cards')>>

CycleCompletes == CycleEnds /\ lastOp' = "completed"

\* C17: the step that ends a cycle that completes records the time as the
\* last-updated value, and every other step leaves the value as it is.
C17_LastUpdateFrame ==
    [][IF CycleCompletes THEN lastUpdate' = <<Now>>
                         ELSE lastUpdate' = lastUpdate]_vars

\* A cycle has aborted and a search has been typed, with no time recorded.
C17_Witness ==
    /\ lastOp = "aborted"
    /\ searchValue # <<>>
    /\ view # "error"
    /\ lastUpdate = <<>>

\* The list is ordered newest first and no two of its articles have one key.
SortedAndDistinct(list) ==
    /\ \A i, j \in DOMAIN list :
          (i < j /\ ValidDate(list[i].publishedAt) /\ ValidDate(list[j].publishedAt))
             => list[i].publishedAt >= list[j].publishedAt
    /\ \A i \in DOMAIN list : list[i].title # Undefined
    /\ \A i, j \in DOMAIN list : i < j => TitleKey(list[i]) # TitleKey(list[j])

\* C18: whenever the view shows a list of cards, the list is ordered newest
\* first among the articles with dates and every article of it has a key that
\* no other has: it is part of a sorted, deduplicated list.
C18_RenderSeesSortedDeduped ==
    view = "cards" => SortedAndDistinct(cards)

\* C19: the view shows the loading block in every state in which a cycle is
\* fetching, and in no idle state.
C19_LoadingWhileFetching ==
    isLoading <=> view = "loading"

===========================================================================
